---- MODULE Spec2Model ----
(***************************************************************************)
(* Lifecycle model of the Eterna-Core Application (src/src/common/app.ts). *)
(*                                                                         *)
(* The Application is an object driven by async methods on one JavaScript  *)
(* event loop.  Every async method is cut at its `await`s: one action is   *)
(* the synchronous segment that runs from a call (or from the resumption   *)
(* of an await) up to the next await.  Calls of start(), stop() and        *)
(* waitForShutdown(), the host stop signal and the shutdown timer are the  *)
(* environment's moves; the outcome of every awaited external operation    *)
(* (moduleLoader.load, module.cleanup, onceLoader.trigger,                 *)
(* moduleLoader.unload) is chosen nondeterministically when it resumes.    *)
(*                                                                         *)
(* The TickLoader (src/unnamed/part_000), the context middleware           *)
(* (src/src/common/middleware/Events/event.client.middleware.ts) and the   *)
(* server Bootstrap (src/unnamed/part_000) are modelled the same way; the  *)
(* host's tick scheduler and event bus are the environment.  The           *)
(* ProviderLoader exists in two versions, src/unnamed/part_002 and         *)
(* src/src/common/loader/Provider/provider.loader.ts; both are modelled.   *)
(***************************************************************************)
EXTENDS Integers, Sequences, FiniteSets

\* ---------------------------------------------------------------- bounds
\* modules handed to Application.create
MaxModules == 2
\* executions of start() that get past its state guard
MaxStarts == 2
\* executions of stop() that get past its state guards (shutdowns begun)
MaxStops == 2
\* observed calls of waitForShutdown() and of stop() answered by an early return
MaxCalls == 2
\* start/stop cycles in the specifications that observe callers (CallerSpec) or
\* assume fair scheduling (FairSpec)
ObservedCycles == 1
\* tick handles the host hands out to the TickLoader
MaxTicks == 2
\* invocations of one tick handler
MaxIterations == 2
\* deliveries of the event to its handler
MaxEvents == 2
\* providers the Event Loader is given
MaxLoads == 2

\* ---------------------------------------------------------------- values
STOPPED == "stopped"
STARTING == "starting"
RUNNING == "running"
STOPPING == "stopping"

ApplicationState == {STOPPED, STARTING, RUNNING, STOPPING}

\* null for a promise, resolver or callback reference
Null == 0

StartIds == 1..MaxStarts
StopIds == 1..MaxStops
ModuleIds == 1..MaxModules

\* outcome of an awaited external operation
Outcomes == {"ok", "throw"}

\* the handles the host's setTick hands out
Handles == 1..MaxTicks

\* how a handler invocation settles: it returns false, undefined or another
\* falsy value (0), or it throws
HandlerResults == {"false", "undefined", "zero", "throw"}

\* TickMetadata / EventMetadata as far as the loaders and middleware read it
Metadata == [context : BOOLEAN, interval : 0..1]

\* argument lists an event is delivered with
EventArgs == {<<>>, <<"a">>}

\* the two versions of ProviderLoader: part_002 ("checked": constructor
\* injection, members tested before use) and provider.loader.ts ("plain":
\* property injection, members used as they are)
ProviderLoaderVersions == {"checked", "plain"}

\* a ProviderLoader of version v whose eventLoader (e) and tickLoader (t) members
\* are set or not, before any call
ProviderLoaderOf(v, e, t) ==
  [version |-> v, eventLoader |-> e, tickLoader |-> t,
   made |-> <<>>, result |-> "none"]

\* one pass through a context middleware: the Context objects created for it,
\* how often the Context was started and stopped, the argument list forwarded to
\* `next`, and what the middleware returned ("none" while it has not)
IdleMiddleware == [pc |-> "idle", contexts |-> 0, started |-> 0, stopped |-> 0,
                   fwd |-> <<>>, ret |-> "none"]

\* the repeating task of a handle: pc is "free" (handle not handed out), "idle"
\* (between two runs of the setTick callback), "invoking" (the callback awaits
\* methodWithMiddleware()) or "sleeping" (it awaits sleep(interval)); attempts,
\* thrown and logged count the invocations of the handler, those that threw and
\* the errors logged; handler is what the latest invocation of the handler
\* itself settled with ("none" while it has not)
FreeTask == [pc |-> "free", meta |-> [context |-> FALSE, interval |-> 0],
             attempts |-> 0, thrown |-> 0, logged |-> 0, handler |-> "none",
             mw |-> IdleMiddleware]

\* the event handler: its metadata, the arguments of the delivery in progress,
\* the deliveries so far, what the handler itself settled with (handler), what
\* the wrapped call settled with (outcome) and its pass through the context
\* middleware
IdleEvent == [meta |-> [context |-> FALSE, interval |-> 0], args |-> <<>>,
              deliveries |-> 0, logged |-> 0, handler |-> "none",
              outcome |-> "none", mw |-> IdleMiddleware]

VARIABLES
  state,             \* Application.state
  shutdownPromise,   \* Application.shutdownPromise: Null or the id of a promise
  shutdownResolver,  \* Application.shutdownResolver: Null or the promise it resolves
  onStopCallback,    \* Application.onStopCallback: Null or the id of a bound callback
  modules,           \* Application.modules, in insertion order
  created,           \* position of Application.create: "adding", "ready", "failed"
  promiseVal,        \* each shutdown promise: "none" (not created), "pending", "T", "F"
  listeners,         \* callbacks subscribed to "Eterna.__internal__.stop_application"
  resourceListeners, \* number of anonymous "onResourceStop" listeners subscribed
  loaded,            \* per module: load calls on the Module Loader since its last unload
  starts,            \* the executions of start()
  stops,             \* the executions of stop() that began a shutdown
  calls,             \* the calls of waitForShutdown() and of stop() answered by an early return
  lastOp             \* the entry point of the last step: "start" (a call of start()),
                     \* "stop" (a call of stop()), "signal" (a host stop signal),
                     \* "load", "unload" (calls of the TickLoader), "invoke" (the
                     \* host invokes a handler), else "step"

VARIABLES
  tickFactory,       \* the factory bound to "MiddlewareTickFactory": "chain" or "context"
  ticks,             \* TickLoader.ticks: the handles stored, in order
  hostTicks,         \* the host's active tick registrations (setTick / clearTick)
  task,              \* per handle: the repeating task registered under it
  event,             \* the event handler wrapped by the event middleware chain
  boot,              \* Bootstrap(): its position (pc) and, while it awaits
                     \* application.stop(), the stop() execution (k) or the shared
                     \* promise (prom) it waits for
  containerUnloaded, \* unloadGlobalContainer() has been called
  providerLoader,    \* the ProviderLoader: its version, whether its eventLoader and
                     \* tickLoader members are set, and of its latest load() or
                     \* unload() the sub-loader calls made and how it ended
  eventLoader        \* the Event Loader: providers loaded since its last unload

\* the fields and running calls of the Application
appVars == <<state, shutdownPromise, shutdownResolver, onStopCallback, modules,
             created, promiseVal, listeners, resourceListeners, loaded,
             starts, stops, calls>>

\* the TickLoader, the host's scheduler and the wrapped handlers
loaderVars == <<tickFactory, ticks, hostTicks, task, event,
                providerLoader, eventLoader>>

\* the ProviderLoader and the Event Loader behind it
providerVars == <<providerLoader, eventLoader>>

\* Bootstrap() and the global container
bootVars == <<boot, containerUnloaded>>

vars == <<state, shutdownPromise, shutdownResolver, onStopCallback, modules,
          created, promiseVal, listeners, resourceListeners, loaded,
          starts, stops, calls, lastOp,
          tickFactory, ticks, hostTicks, task, event, boot, containerUnloaded,
          providerLoader, eventLoader>>

\* An execution of start(): pc and idx are its position; loads and startEvents
\* record the modules it passed to the Module Loader and the Start once-events it
\* fired; they are kept while it runs and cleared when it returns or throws.
IdleStart == [pc |-> "idle", idx |-> 0, loads |-> <<>>, startEvents |-> 0]

\* An execution of stop() with its performShutdown and its timer.  pc, perf, idx,
\* timer and won are its position; perfResult is what performShutdown returned;
\* prom is the shutdown promise the cycle it stops was started with.  from (the
\* state stop() was called in), stopEvents, cleans, cleanFailed and unloads record
\* what performShutdown has done so far; they are kept while it runs and cleared
\* when it returns.
IdleStop == [pc |-> "idle", perf |-> "idle", idx |-> 0, won |-> "none",
             timer |-> "none", perfResult |-> "none", prom |-> Null,
             from |-> STOPPED,
             stopEvents |-> 0, cleans |-> <<>>, cleanFailed |-> {},
             unloads |-> 0]

InitApplication ==
  /\ state = STOPPED
  /\ shutdownPromise = Null
  /\ shutdownResolver = Null
  /\ onStopCallback = Null
  /\ modules = <<>>
  /\ created = "adding"
  /\ promiseVal = [p \in StartIds |-> "none"]
  /\ listeners = {}
  /\ resourceListeners = 0
  /\ loaded = [m \in ModuleIds |-> 0]
  /\ starts = [i \in StartIds |-> IdleStart]
  /\ stops = [k \in StopIds |-> IdleStop]
  /\ calls = {}
  /\ lastOp = "step"

\* part_000:47: a TickLoader that holds no handle; nothing is registered with the
\* host and no handler is being invoked
InitLoader ==
  /\ ticks = <<>>
  /\ hostTicks = {}
  /\ task = [h \in Handles |-> FreeTask]
  /\ event = IdleEvent
  /\ eventLoader = 0

\* part_000:13: Bootstrap() has not been called
InitBootstrap ==
  /\ boot = [pc |-> "idle", k |-> 0, prom |-> Null]
  /\ containerUnloaded = FALSE

\* the Application after construction, with the tick middleware chain of the
\* server Bootstrap bound (part_000:20-23)
Init ==
  /\ InitApplication
  /\ InitLoader
  /\ InitBootstrap
  /\ tickFactory = "chain"
  /\ providerLoader = ProviderLoaderOf("plain", TRUE, TRUE)

\* a step of the Application: the loaders and Bootstrap() stay as they are
AppOnly == UNCHANGED <<loaderVars, bootVars>>

\* ------------------------------------------------------------- helpers
Started == {i \in StartIds : starts[i].pc # "idle"}
Stopped == {k \in StopIds : stops[k].pc # "idle"}

\* the stop() executions still awaiting their Promise.race
Racing == {k \in StopIds : stops[k].pc = "racing"}

SetMax(S) == CHOOSE x \in S : \A y \in S : y <= x

\* the stop() execution that put the Application into STOPPING, 0 if none is in flight
InFlight == IF Racing = {} THEN 0 ELSE SetMax(Racing)

\* ---------------------------------------------------- Application.create
\* addModule if it pushed the module before it awaited initialize()
addModule_pushFirst(outcome) ==
  /\ created = "adding"
  /\ Len(modules) < MaxModules
  /\ \E c \in BOOLEAN :
       modules' = Append(modules, [id |-> Len(modules) + 1, cleanup |-> c])
  /\ created' = IF outcome = "ok" THEN created ELSE "failed"
  /\ lastOp' = "step"
  /\ UNCHANGED <<state, shutdownPromise, shutdownResolver, onStopCallback,
                 promiseVal, listeners, resourceListeners, loaded,
                 starts, stops, calls>>

\* app.ts:15-19, 217-237: initialize() is awaited, then the module is pushed; a
\* module is its position in the list given to create and whether it defines the
\* optional cleanup()
addModule(outcome) ==
  /\ created = "adding"
  /\ Len(modules) < MaxModules
  /\ IF outcome = "ok"
       THEN /\ \E c \in BOOLEAN :
                 modules' = Append(modules, [id |-> Len(modules) + 1, cleanup |-> c])
            /\ created' = created
       ELSE /\ modules' = modules
            /\ created' = "failed"
  /\ lastOp' = "step"
  /\ UNCHANGED <<state, shutdownPromise, shutdownResolver, onStopCallback,
                 promiseVal, listeners, resourceListeners, loaded,
                 starts, stops, calls>>

\* ----------------------------------------------------- Application.start
\* the guard of start() if it tested RUNNING only
AlreadyStarted_runningOnly == state = RUNNING

\* app.ts:101: the guard of start()
AlreadyStarted == state # STOPPED

\* the catch block of start() if it left the state as it was
StateAfterStartError_kept == state

\* app.ts:123: the state the catch block of start() leaves behind
StateAfterStartError == STOPPED

\* app.ts:53: options.enableResourceListener (its default)
enableResourceListener == TRUE

\* app.ts:250-252: the loop of loadModules passes modules[k] to the Module Loader
\* and suspends on the returned promise
loadModules(i, k) ==
  /\ starts' = [starts EXCEPT ![i].pc = "load", ![i].idx = k,
                              ![i].loads = Append(@, modules[k].id)]
  /\ loaded' = [loaded EXCEPT ![modules[k].id] = @ + 1]

\* app.ts:100-114: start() from its call to its first await
start ==
  /\ created \in {"adding", "ready"}
  /\ lastOp' = "start"
  /\ UNCHANGED <<modules, listeners, resourceListeners, onStopCallback,
                 stops, calls>>
  /\ IF AlreadyStarted
       THEN UNCHANGED <<state, shutdownPromise, shutdownResolver, created,
                        promiseVal, loaded, starts>>
       ELSE /\ Cardinality(Started) < MaxStarts
            /\ LET i == Cardinality(Started) + 1 IN
                 /\ state' = STARTING
                 /\ created' = "ready"
                 /\ shutdownPromise' = i
                 /\ shutdownResolver' = i
                 /\ promiseVal' = [promiseVal EXCEPT ![i] = "pending"]
                 /\ IF modules = <<>>
                      THEN /\ starts' = [starts EXCEPT ![i].pc = "loaded"]
                           /\ loaded' = loaded
                      ELSE loadModules(i, 1)

\* loadModules if its loop ended after the first module
loadModules_resume_firstOnly(i, outcome) ==
  /\ starts[i].pc = "load"
  /\ lastOp' = "step"
  /\ UNCHANGED <<shutdownPromise, shutdownResolver, onStopCallback, modules,
                 created, promiseVal, listeners, resourceListeners,
                 stops, calls, loaded>>
  /\ IF outcome = "throw"
       THEN /\ state' = StateAfterStartError
            /\ starts' = [starts EXCEPT ![i] = [IdleStart EXCEPT !.pc = "rejected"]]
       ELSE /\ state' = state
            /\ starts' = [starts EXCEPT ![i].pc = "loaded"]

\* app.ts:250-261: loadModules resumes from `await this.moduleLoader.load(module)`;
\* a rejection is rethrown into the catch block of start() (app.ts:122-126)
loadModules_resume(i, outcome) ==
  /\ starts[i].pc = "load"
  /\ lastOp' = "step"
  /\ UNCHANGED <<shutdownPromise, shutdownResolver, onStopCallback, modules,
                 created, promiseVal, listeners, resourceListeners,
                 stops, calls>>
  /\ IF outcome = "throw"
       THEN /\ state' = StateAfterStartError
            /\ starts' = [starts EXCEPT ![i] = [IdleStart EXCEPT !.pc = "rejected"]]
            /\ loaded' = loaded
       ELSE /\ state' = state
            /\ IF starts[i].idx < Len(modules)
                 THEN loadModules(i, starts[i].idx + 1)
                 ELSE /\ starts' = [starts EXCEPT ![i].pc = "loaded"]
                      /\ loaded' = loaded

\* app.ts:277-301: registerEventListeners binds a fresh callback and subscribes
registerEventListeners(i) ==
  /\ onStopCallback' = i
  /\ resourceListeners' = IF enableResourceListener
                            THEN resourceListeners + 1
                            ELSE resourceListeners
  /\ listeners' = listeners \cup {i}

\* app.ts:116-118: start() resumes from `await this.loadModules()`, registers the
\* listeners and fires the Start once-event
start_afterLoadModules(i) ==
  /\ starts[i].pc = "loaded"
  /\ lastOp' = "step"
  /\ registerEventListeners(i)
  /\ starts' = [starts EXCEPT ![i].pc = "trigger", ![i].startEvents = @ + 1]
  /\ UNCHANGED <<state, shutdownPromise, shutdownResolver, modules, created,
                 promiseVal, loaded, stops, calls>>

\* app.ts:118-126: start() resumes from `await this.onceLoader.trigger(Start)`
start_afterTrigger(i, outcome) ==
  /\ starts[i].pc = "trigger"
  /\ lastOp' = "step"
  /\ IF outcome = "throw"
       THEN /\ state' = StateAfterStartError
            /\ starts' = [starts EXCEPT ![i] = [IdleStart EXCEPT !.pc = "rejected"]]
       ELSE /\ state' = RUNNING
            /\ starts' = [starts EXCEPT ![i] = [IdleStart EXCEPT !.pc = "resolved"]]
  /\ UNCHANGED <<shutdownPromise, shutdownResolver, onStopCallback, modules,
                 created, promiseVal, listeners, resourceListeners, loaded,
                 stops, calls>>

\* ------------------------------------------------------ Application.stop
\* app.ts:445-449: cleanup() resets the shutdown bookkeeping
cleanup ==
  /\ shutdownPromise' = Null
  /\ shutdownResolver' = Null
  /\ onStopCallback' = Null

\* app.ts:406-413: removeEventListeners unsubscribes the stored callback
removeEventListeners ==
  listeners' = IF onStopCallback # Null
                 THEN listeners \ {onStopCallback}
                 ELSE listeners

\* app.ts:358-360, 367-369: `if (this.shutdownResolver) this.shutdownResolver(v)`;
\* resolving a promise that is already resolved has no effect
resolveShutdown(v) ==
  promiseVal' = IF shutdownResolver # Null /\ promiseVal[shutdownResolver] = "pending"
                  THEN [promiseVal EXCEPT ![shutdownResolver] = v]
                  ELSE promiseVal

\* Promise.race if the timeout promise could not settle it
raceWon_perfOnly(k, who) ==
  IF stops[k].won = "none" /\ who = "perf" THEN who ELSE stops[k].won

\* app.ts:152-155: Promise.race settles with the first of its two promises to
\* settle: "perf" (performShutdown) or "timer" (createShutdownTimeout)
raceWon(k, who) == IF stops[k].won = "none" THEN who ELSE stops[k].won

\* the value Promise.race of stop() k settled with
raceValue(k) ==
  CASE stops[k].won = "timer" -> "F"
    [] stops[k].won = "perf" -> stops[k].perfResult
    [] OTHER -> "none"

\* app.ts:160: what stop() k returned ("none" while it has not)
stopResult(k) == IF stops[k].pc = "returned" THEN raceValue(k) ELSE "none"

\* the record of performShutdown k once it has returned v
performShutdown_returns(k, v) ==
  [stops[k] EXCEPT !.perf = "done", !.perfResult = v, !.won = raceWon(k, "perf"),
                   !.idx = 0, !.from = STOPPED, !.stopEvents = 0, !.cleans = <<>>,
                   !.cleanFailed = {}, !.unloads = 0]

\* app.ts:143-146, 197-201: `return this.shutdownPromise || Promise.resolve(true)`
sharedResult == IF shutdownPromise = Null THEN "T" ELSE "none"

\* a call answered at once or from the shared shutdown promise: the state it was
\* made in (st), the promise it was handed (prom), the stop() in flight if it was
\* made in STOPPING (peer, else 0) and what it has returned so far
Answer(kind, stoppedNow) ==
  [kind |-> kind,
   st |-> state,
   prom |-> IF stoppedNow THEN Null ELSE shutdownPromise,
   peer |-> IF state = STOPPING THEN InFlight ELSE 0,
   result |-> IF stoppedNow THEN "T" ELSE sharedResult]

\* the early returns of stop() if both answered from the shared shutdown promise
stopEarly_shared ==
  calls' = calls \cup {Answer("stop", FALSE)}

\* app.ts:138-146: the early returns of stop()
stopEarly ==
  calls' = calls \cup {Answer("stop", state = STOPPED)}

\* app.ts:143: the guard of stop() that answers from the shutdown in flight
AlreadyStopping_never == FALSE

AlreadyStopping == state = STOPPING

\* app.ts:137-155: stop() from its call to the await of Promise.race: the early
\* returns, or STOPPING, the synchronous head of performShutdown (app.ts:346, the
\* Stop once-event is fired) and createShutdownTimeout (app.ts:426-435).  An
\* early return changes nothing in the Application; with `observe` the caller and
\* what it is handed are recorded in calls.
stopCall(observe) ==
  /\ UNCHANGED <<shutdownPromise, shutdownResolver, onStopCallback, modules,
                 created, promiseVal, listeners, resourceListeners, loaded,
                 starts>>
  /\ IF state = STOPPED \/ AlreadyStopping
       THEN /\ IF observe
                 THEN Cardinality(calls) < MaxCalls /\ stopEarly
                 ELSE calls' = calls
            /\ UNCHANGED <<state, stops>>
       ELSE /\ Cardinality(Stopped) < MaxStops
            /\ state' = STOPPING
            /\ stops' = [stops EXCEPT ![Cardinality(Stopped) + 1] =
                 [IdleStop EXCEPT !.pc = "racing", !.perf = "trigger",
                                  !.timer = "armed", !.from = state,
                                  !.prom = shutdownPromise, !.stopEvents = 1]]
            /\ calls' = calls

stop ==
  /\ created = "ready"
  /\ lastOp' = "stop"
  /\ stopCall(FALSE)

\* stop() called by an observed caller
stop_observed ==
  /\ created = "ready"
  /\ lastOp' = "stop"
  /\ stopCall(TRUE)

\* app.ts:318-330: handleStop ignores the signal in STOPPED and STOPPING and calls
\* stop() otherwise
handleStop ==
  /\ lastOp' = "signal"
  /\ IF state = STOPPED \/ state = STOPPING
       THEN UNCHANGED <<state, shutdownPromise, shutdownResolver, onStopCallback,
                        modules, created, promiseVal, listeners,
                        resourceListeners, loaded, starts, stops, calls>>
       ELSE stopCall(FALSE)

\* app.ts:284-291: the host raises onResourceStop for this resource
onResourceStop ==
  /\ resourceListeners > 0
  /\ handleStop

\* app.ts:294-299: the host raises "Eterna.__internal__.stop_application"; every
\* subscribed callback is handleStop bound to the Application
stopApplicationEvent ==
  /\ listeners # {}
  /\ handleStop

\* app.ts:364-372: the catch block of performShutdown
performShutdown_catch(k) ==
  /\ resolveShutdown("F")
  /\ cleanup
  /\ stops' = [stops EXCEPT ![k] = performShutdown_returns(k, "F")]
  /\ UNCHANGED <<listeners, loaded>>

\* app.ts:385-389: the position of the next module at or after j that defines
\* cleanup(), 0 if there is none
NextCleanup(j) ==
  IF \E n \in j..Len(modules) : modules[n].cleanup
    THEN CHOOSE n \in j..Len(modules) :
           /\ modules[n].cleanup
           /\ \A m \in j..(n - 1) : ~modules[m].cleanup
    ELSE 0

\* app.ts:384-398: cleanupModules runs from module j up to its next await, or
\* returns; `failed` holds the module whose cleanup() just rejected, if any
cleanupModules(k, j, failed) ==
  LET n == NextCleanup(j) IN
    stops' = IF n = 0
               THEN [stops EXCEPT ![k].perf = "cleaned",
                                  ![k].cleanFailed = @ \cup failed]
               ELSE [stops EXCEPT ![k].perf = "cleanup", ![k].idx = n,
                                  ![k].cleans = Append(@, modules[n].id),
                                  ![k].cleanFailed = @ \cup failed]

\* performShutdown if it unloaded the Module Loader before cleaning the modules up
performShutdown_afterTrigger_unloadFirst(k, outcome) ==
  /\ stops[k].perf = "trigger"
  /\ lastOp' = "step"
  /\ UNCHANGED <<state, modules, created, resourceListeners, starts, calls>>
  /\ IF outcome = "throw"
       THEN performShutdown_catch(k)
       ELSE /\ stops' = [stops EXCEPT ![k].perf = "unload", ![k].unloads = @ + 1]
            /\ UNCHANGED <<shutdownPromise, shutdownResolver, onStopCallback,
                           promiseVal, listeners, loaded>>

\* app.ts:346-349: performShutdown resumes from `await this.onceLoader.trigger(Stop)`
performShutdown_afterTrigger(k, outcome) ==
  /\ stops[k].perf = "trigger"
  /\ lastOp' = "step"
  /\ UNCHANGED <<state, modules, created, resourceListeners, starts, calls>>
  /\ IF outcome = "throw"
       THEN performShutdown_catch(k)
       ELSE /\ cleanupModules(k, 1, {})
            /\ UNCHANGED <<shutdownPromise, shutdownResolver, onStopCallback,
                           promiseVal, listeners, loaded>>

\* cleanupModules if a rejected cleanup() escaped its loop into the catch block
\* of performShutdown
cleanupModules_resume_aborting(k, outcome) ==
  /\ stops[k].perf = "cleanup"
  /\ lastOp' = "step"
  /\ UNCHANGED <<state, modules, created, resourceListeners, starts, calls>>
  /\ IF outcome = "throw"
       THEN performShutdown_catch(k)
       ELSE /\ cleanupModules(k, stops[k].idx + 1, {})
            /\ UNCHANGED <<shutdownPromise, shutdownResolver, onStopCallback,
                           promiseVal, listeners, loaded>>

\* app.ts:386-396: cleanupModules resumes from `await module.cleanup()`; a
\* rejection is logged and the loop goes on
cleanupModules_resume(k, outcome) ==
  /\ stops[k].perf = "cleanup"
  /\ lastOp' = "step"
  /\ cleanupModules(k, stops[k].idx + 1,
                    IF outcome = "throw" THEN {modules[stops[k].idx].id} ELSE {})
  /\ UNCHANGED <<state, shutdownPromise, shutdownResolver, onStopCallback,
                 modules, created, promiseVal, listeners, resourceListeners,
                 loaded, starts, calls>>

\* app.ts:349-352: performShutdown resumes from `await this.cleanupModules()` and
\* calls moduleLoader.unload()
performShutdown_afterCleanup(k) ==
  /\ stops[k].perf = "cleaned"
  /\ lastOp' = "step"
  /\ stops' = [stops EXCEPT ![k].perf = "unload", ![k].unloads = @ + 1]
  /\ UNCHANGED <<state, shutdownPromise, shutdownResolver, onStopCallback,
                 modules, created, promiseVal, listeners, resourceListeners,
                 loaded, starts, calls>>

\* app.ts:352-363: performShutdown resumes from `await this.moduleLoader.unload()`
performShutdown_afterUnload(k, outcome) ==
  /\ stops[k].perf = "unload"
  /\ lastOp' = "step"
  /\ UNCHANGED <<state, modules, created, resourceListeners, starts, calls>>
  /\ IF outcome = "throw"
       THEN performShutdown_catch(k)
       ELSE /\ removeEventListeners
            /\ resolveShutdown("T")
            /\ cleanup
            /\ loaded' = [m \in ModuleIds |-> 0]
            /\ stops' = [stops EXCEPT ![k] = performShutdown_returns(k, "T")]

\* app.ts:426-435: the timer of createShutdownTimeout fires: the warning is logged
\* and the timeout promise resolves to false
createShutdownTimeout_fires(k) ==
  /\ stops[k].timer = "armed"
  /\ lastOp' = "step"
  /\ stops' = [stops EXCEPT ![k].timer = "fired", ![k].won = raceWon(k, "timer")]
  /\ UNCHANGED <<state, shutdownPromise, shutdownResolver, onStopCallback,
                 modules, created, promiseVal, listeners, resourceListeners,
                 loaded, starts, calls>>

\* app.ts:152-160: stop() resumes from the await of Promise.race
stop_afterRace(k) ==
  /\ stops[k].pc = "racing"
  /\ stops[k].won # "none"
  /\ lastOp' = "step"
  /\ state' = STOPPED
  /\ stops' = [stops EXCEPT ![k].pc = "returned"]
  /\ UNCHANGED <<shutdownPromise, shutdownResolver, onStopCallback, modules,
                 created, promiseVal, listeners, resourceListeners, loaded,
                 starts, calls>>

\* ------------------------------------------- Application.waitForShutdown
\* app.ts:197-202
waitForShutdown ==
  /\ created = "ready"
  /\ Cardinality(calls) < MaxCalls
  /\ lastOp' = "step"
  /\ calls' = calls \cup {Answer("wait", state = STOPPED)}
  /\ UNCHANGED <<state, shutdownPromise, shutdownResolver, onStopCallback,
                 modules, created, promiseVal, listeners, resourceListeners,
                 loaded, starts, stops>>

\* a caller of stop() or waitForShutdown() that was handed the shared shutdown
\* promise resumes once it is resolved
awaitResolved(c) ==
  /\ c.result = "none"
  /\ promiseVal[c.prom] \in {"T", "F"}
  /\ lastOp' = "step"
  /\ calls' = (calls \ {c}) \cup {[c EXCEPT !.result = promiseVal[c.prom]]}
  /\ UNCHANGED <<state, shutdownPromise, shutdownResolver, onStopCallback,
                 modules, created, promiseVal, listeners, resourceListeners,
                 loaded, starts, stops>>

\* app.ts:429-431: the graceful-shutdown timeout warnings logged so far
timeoutWarnings == Cardinality({k \in StopIds : stops[k].timer = "fired"})

\* ------------------------------------------------- context middleware
\* the event context middleware if it passed the Context whatever the metadata says
ContextEventMiddleware_call_alwaysContext(meta, args) ==
  [pc |-> "forwarded", contexts |-> 1, started |-> 1, stopped |-> 0,
   fwd |-> <<"Context">> \o args, ret |-> "none"]

\* event.client.middleware.ts:36-46: the middleware built by
\* ContextEventMiddlewareFactory.create, from its call to `await next(...)`: a
\* Context is created and started, and `next` is called with the arguments, led
\* by the Context if the metadata asks for it
ContextEventMiddleware_call(meta, args) ==
  [pc |-> "forwarded", contexts |-> 1, started |-> 1, stopped |-> 0,
   fwd |-> IF meta.context THEN <<"Context">> \o args ELSE args,
   ret |-> "none"]

\* event.client.middleware.ts:43-49: `next` settled with o (a returned value or
\* "throw"); the finally block stops the Context and o is passed on
ContextEventMiddleware_settle(m, o) ==
  [m EXCEPT !.pc = "done", !.stopped = @ + 1, !.ret = o]

\* event.client.middleware.ts:57-67: the same for ContextTickMiddlewareFactory
ContextTickMiddleware_call(meta, args) ==
  [pc |-> "forwarded", contexts |-> 1, started |-> 1, stopped |-> 0,
   fwd |-> IF meta.context THEN <<"Context">> \o args ELSE args,
   ret |-> "none"]

\* the tick context middleware if it stopped the Context after a normal return only
ContextTickMiddleware_settle_noFinally(m, o) ==
  [m EXCEPT !.pc = "done", !.stopped = IF o = "throw" THEN @ ELSE @ + 1,
            !.ret = o]

\* event.client.middleware.ts:64-70
ContextTickMiddleware_settle(m, o) ==
  [m EXCEPT !.pc = "done", !.stopped = @ + 1, !.ret = o]

\* the logging middleware, outermost in a chain: an error of the inner layers is
\* caught and logged and does not pass; a returned value is passed on
LogMiddleware_result(o) == IF o = "throw" THEN "undefined" ELSE o

\* the errors the logging middleware logs for an inner result o
LogMiddleware_logs(o) == IF o = "throw" THEN 1 ELSE 0

\* ------------------------------------------------------------ event handler
\* event.client.middleware.ts:15-20: the host delivers the event to the handler
\* wrapped by ChainMiddlewareEventClientFactory.create: logging around context
\* around the handler
eventDelivered(meta, args) ==
  /\ event.mw.pc # "forwarded"
  /\ event.deliveries < MaxEvents
  /\ lastOp' = "invoke"
  /\ event' = [event EXCEPT !.meta = meta, !.args = args,
                            !.deliveries = @ + 1, !.handler = "none",
                            !.outcome = "none",
                            !.mw = ContextEventMiddleware_call(meta, args)]
  /\ UNCHANGED <<appVars, bootVars, providerVars, tickFactory, ticks, hostTicks, task>>

\* event.client.middleware.ts:15-20, 43-49: the handler settles with o; the
\* wrapped call settles with what the chain makes of it
eventHandled(o) ==
  /\ event.mw.pc = "forwarded"
  /\ lastOp' = "step"
  /\ LET m == ContextEventMiddleware_settle(event.mw, o) IN
       event' = [event EXCEPT !.mw = m, !.handler = o,
                              !.logged = @ + LogMiddleware_logs(m.ret),
                              !.outcome = LogMiddleware_result(m.ret)]
  /\ UNCHANGED <<appVars, bootVars, providerVars, tickFactory, ticks, hostTicks, task>>

\* --------------------------------------------------------------- TickLoader
\* the handles handed out so far
Issued == {h \in Handles : task[h].pc # "free"}

\* the handles held in TickLoader.ticks
Stored == {ticks[j] : j \in 1..Len(ticks)}

\* part_000:52-85: load(provider) for a provider whose tick metadata table is
\* metas: every method is wrapped, registered with setTick and its handle stored
TickLoader_registers(metas) ==
  LET n == Cardinality(Issued)
      fresh == (n + 1)..(n + Len(metas))
  IN /\ ticks' = ticks \o [j \in 1..Len(metas) |-> n + j]
     /\ hostTicks' = hostTicks \cup fresh
     /\ task' = [h \in Handles |->
                   IF h \in fresh
                     THEN [FreeTask EXCEPT !.pc = "idle", !.meta = metas[h - n]]
                     ELSE task[h]]

\* part_000:52-85: a call of load(provider) on the TickLoader
TickLoader_load(metas) ==
  /\ Cardinality(Issued) + Len(metas) <= MaxTicks
  /\ lastOp' = "load"
  /\ TickLoader_registers(metas)
  /\ UNCHANGED <<appVars, bootVars, providerVars, tickFactory, event>>

\* unload() if it emptied the list without clearing the handles
TickLoader_unload_forgets ==
  /\ lastOp' = "unload"
  /\ hostTicks' = hostTicks
  /\ ticks' = <<>>
  /\ UNCHANGED <<appVars, bootVars, providerVars, tickFactory, task, event>>

\* part_000:87-93: unload() clears every stored handle and empties the list
TickLoader_unload ==
  /\ lastOp' = "unload"
  /\ hostTicks' = hostTicks \ Stored
  /\ ticks' = <<>>
  /\ UNCHANGED <<appVars, bootVars, providerVars, tickFactory, task, event>>

\* part_000:66-68: the host runs the setTick callback of an active registration
\* whose previous run has finished; the callback calls methodWithMiddleware()
setTick_runs(h) ==
  /\ h \in hostTicks
  /\ task[h].pc = "idle"
  /\ task[h].attempts < MaxIterations
  /\ lastOp' = "invoke"
  /\ task' = [task EXCEPT ![h].pc = "invoking", ![h].attempts = @ + 1,
                          ![h].handler = "none",
                          ![h].mw = ContextTickMiddleware_call(task[h].meta, <<>>)]
  /\ UNCHANGED <<appVars, bootVars, providerVars, tickFactory, ticks, hostTicks, event>>

\* part_000:61-64: what methodWithMiddleware() settles with when the context
\* middleware settled with r: the factory bound to "MiddlewareTickFactory" is the
\* chain (logging around context) or the context middleware alone
wrappedResult(r) == IF tickFactory = "chain" THEN LogMiddleware_result(r) ELSE r

\* the test of the callback if it never took a result for the sentinel
IsSentinel_never(r) == FALSE

\* the test of the callback if it took every falsy result for the sentinel
IsSentinel_falsy(r) == r \in {"false", "undefined", "zero"}

\* part_000:70: `result === false`
IsSentinel(r) == r = "false"

\* part_000:68-81: the callback resumes from `await methodWithMiddleware()`, the
\* handler having settled with o: on the sentinel it clears its own tick and
\* returns; otherwise, and after an error (caught and dropped), it sleeps for the
\* interval if there is one
tick_afterInvoke(h, o) ==
  /\ task[h].pc = "invoking"
  /\ lastOp' = "step"
  /\ LET m == ContextTickMiddleware_settle(task[h].mw, o)
         r == wrappedResult(m.ret)
     IN /\ task' = [task EXCEPT
                      ![h].mw = m,
                      ![h].handler = o,
                      ![h].thrown = @ + (IF o = "throw" THEN 1 ELSE 0),
                      ![h].logged = @ + (IF tickFactory = "chain"
                                           THEN LogMiddleware_logs(m.ret) ELSE 0),
                      ![h].pc = IF ~IsSentinel(r) /\ task[h].meta.interval > 0
                                  THEN "sleeping" ELSE "idle"]
        /\ hostTicks' = IF IsSentinel(r) THEN hostTicks \ {h} ELSE hostTicks
  /\ UNCHANGED <<appVars, bootVars, providerVars, tickFactory, ticks, event>>

\* part_000:78-81: the callback resumes from `await sleep(metadata.interval)`
tick_afterSleep(h) ==
  /\ task[h].pc = "sleeping"
  /\ lastOp' = "step"
  /\ task' = [task EXCEPT ![h].pc = "idle"]
  /\ UNCHANGED <<appVars, bootVars, providerVars, tickFactory, ticks, hostTicks, event>>

\* the tick metadata tables of the providers handed to load()
MetadataTables == UNION {[1..n -> Metadata] : n \in 0..MaxTicks}

\* ----------------------------------------------------------- ProviderLoader
\* the Event Loader's load(provider): the provider's event handlers are wrapped
\* and subscribed
EventLoader_load == eventLoader' = eventLoader + 1

\* the Event Loader's unload(): every subscription is removed
EventLoader_unload == eventLoader' = 0

\* part_002:14-28: load(instance) of the checked version: both members are tested
\* before either sub-loader is called
ProviderLoader_load_checked(metas) ==
  IF ~providerLoader.eventLoader \/ ~providerLoader.tickLoader
    THEN /\ providerLoader' = [providerLoader EXCEPT !.made = <<>>,
                                                     !.result = "throw"]
         /\ UNCHANGED <<eventLoader, ticks, hostTicks, task>>
    ELSE /\ EventLoader_load
         /\ TickLoader_registers(metas)
         /\ providerLoader' = [providerLoader EXCEPT !.made = <<"event", "tick">>,
                                                     !.result = "ok"]

\* provider.loader.ts:13-17: load(instance) of the plain version:
\* `this.eventLoader.load(instance); this.tickLoader.load(instance);`, where a
\* call on a member that is not set throws a TypeError
ProviderLoader_load_plain(metas) ==
  CASE ~providerLoader.eventLoader ->
         /\ providerLoader' = [providerLoader EXCEPT !.made = <<>>,
                                                     !.result = "throw"]
         /\ UNCHANGED <<eventLoader, ticks, hostTicks, task>>
    [] providerLoader.eventLoader /\ ~providerLoader.tickLoader ->
         /\ EventLoader_load
         /\ providerLoader' = [providerLoader EXCEPT !.made = <<"event">>,
                                                     !.result = "throw"]
         /\ UNCHANGED <<ticks, hostTicks, task>>
    [] OTHER ->
         /\ EventLoader_load
         /\ TickLoader_registers(metas)
         /\ providerLoader' = [providerLoader EXCEPT !.made = <<"event", "tick">>,
                                                     !.result = "ok"]

\* part_001:6-8, provider.server.loader.ts:6-9: a call of load(provider) on the
\* ServerProviderLoader or ClientProviderLoader, which calls super.load
ProviderLoader_load(metas) ==
  /\ Cardinality(Issued) + Len(metas) <= MaxTicks
  /\ eventLoader < MaxLoads
  /\ lastOp' = "providerLoad"
  /\ IF providerLoader.version = "checked"
       THEN ProviderLoader_load_checked(metas)
       ELSE ProviderLoader_load_plain(metas)
  /\ UNCHANGED <<appVars, bootVars, tickFactory, event>>

\* part_000:87-93: what unload() of the TickLoader does
TickLoader_clears ==
  /\ hostTicks' = hostTicks \ Stored
  /\ ticks' = <<>>

\* part_002:30-39: unload() of the checked version: each member is unloaded if set
ProviderLoader_unload_checked ==
  /\ IF providerLoader.eventLoader THEN EventLoader_unload
                                   ELSE eventLoader' = eventLoader
  /\ IF providerLoader.tickLoader THEN TickLoader_clears
                                  ELSE UNCHANGED <<ticks, hostTicks>>
  /\ providerLoader' =
       [providerLoader EXCEPT
          !.made = (IF providerLoader.eventLoader THEN <<"event">> ELSE <<>>)
                     \o (IF providerLoader.tickLoader THEN <<"tick">> ELSE <<>>),
          !.result = "ok"]

\* provider.loader.ts:19-23: unload() of the plain version:
\* `this.eventLoader.unload(); this.tickLoader.unload();`
ProviderLoader_unload_plain ==
  CASE ~providerLoader.eventLoader ->
         /\ providerLoader' = [providerLoader EXCEPT !.made = <<>>,
                                                     !.result = "throw"]
         /\ UNCHANGED <<eventLoader, ticks, hostTicks>>
    [] providerLoader.eventLoader /\ ~providerLoader.tickLoader ->
         /\ EventLoader_unload
         /\ providerLoader' = [providerLoader EXCEPT !.made = <<"event">>,
                                                     !.result = "throw"]
         /\ UNCHANGED <<ticks, hostTicks>>
    [] OTHER ->
         /\ EventLoader_unload
         /\ TickLoader_clears
         /\ providerLoader' = [providerLoader EXCEPT !.made = <<"event", "tick">>,
                                                     !.result = "ok"]

\* part_001:10-12, provider.server.loader.ts:11-14: a call of unload()
ProviderLoader_unload ==
  /\ lastOp' = "providerUnload"
  /\ IF providerLoader.version = "checked"
       THEN ProviderLoader_unload_checked
       ELSE ProviderLoader_unload_plain
  /\ UNCHANGED <<appVars, bootVars, tickFactory, task, event>>

\* ---------------------------------------------------------------- Bootstrap
\* part_000:13-29, app.ts:65-82: Bootstrap() binds the middleware factories and
\* awaits Application.create(ServerProviderLoader): no modules are passed, and
\* create awaits app.start()
Bootstrap_create ==
  /\ boot.pc = "idle"
  /\ modules = <<>>
  /\ start
  /\ boot' = [boot EXCEPT !.pc = "create"]
  /\ UNCHANGED <<loaderVars, containerUnloaded>>

\* part_000:29-31, app.ts:81-89: start() has settled.  If it rejected, create
\* rethrows and Bootstrap() ends rejected; otherwise Bootstrap() calls
\* application.stop() and awaits what it returns: the result of the shutdown it
\* began, true, or the shared shutdown promise
Bootstrap_afterCreate ==
  /\ boot.pc = "create"
  /\ starts[1].pc \in {"resolved", "rejected"}
  /\ IF starts[1].pc = "rejected"
       THEN /\ boot' = [boot EXCEPT !.pc = "failed"]
            /\ lastOp' = "step"
            /\ UNCHANGED appVars
       ELSE /\ stop
            /\ boot' = IF state = STOPPED \/ AlreadyStopping
                         THEN [boot EXCEPT !.pc = "stop",
                                           !.prom = IF state = STOPPED
                                                      THEN Null
                                                      ELSE shutdownPromise]
                         ELSE [boot EXCEPT !.pc = "stop",
                                           !.k = Cardinality(Stopped) + 1]
  /\ UNCHANGED <<loaderVars, containerUnloaded>>

\* part_000:31: the promise application.stop() returned has settled
StopSettled ==
  /\ boot.k # 0 => stops[boot.k].pc = "returned"
  /\ boot.prom # Null => promiseVal[boot.prom] \in {"T", "F"}

\* part_000:31-33: Bootstrap() resumes from `await application.stop()` and calls
\* unloadGlobalContainer()
Bootstrap_afterStop ==
  /\ boot.pc = "stop"
  /\ StopSettled
  /\ boot' = [boot EXCEPT !.pc = "done"]
  /\ containerUnloaded' = TRUE
  /\ lastOp' = "step"
  /\ UNCHANGED <<appVars, loaderVars>>

\* the event loop runs the continuations of a settled promise before it turns to
\* the next host event or timer: nothing of the host comes between start()
\* settling and Bootstrap() going on
HostTurn == ~(boot.pc = "create" /\ starts[1].pc \in {"resolved", "rejected"})

\* ------------------------------------------------------- specification
\* the Application over repeated start/stop cycles
Next ==
  \/ \E o \in Outcomes : addModule(o) /\ AppOnly
  \/ start /\ AppOnly
  \/ \E i \in StartIds, o \in Outcomes : loadModules_resume(i, o) /\ AppOnly
  \/ \E i \in StartIds : start_afterLoadModules(i) /\ AppOnly
  \/ \E i \in StartIds, o \in Outcomes : start_afterTrigger(i, o) /\ AppOnly
  \/ stop /\ AppOnly
  \/ onResourceStop /\ AppOnly
  \/ stopApplicationEvent /\ AppOnly
  \/ \E k \in StopIds, o \in Outcomes : performShutdown_afterTrigger(k, o) /\ AppOnly
  \/ \E k \in StopIds, o \in Outcomes : cleanupModules_resume(k, o) /\ AppOnly
  \/ \E k \in StopIds : performShutdown_afterCleanup(k) /\ AppOnly
  \/ \E k \in StopIds, o \in Outcomes : performShutdown_afterUnload(k, o) /\ AppOnly
  \/ \E k \in StopIds : createShutdownTimeout_fires(k) /\ AppOnly
  \/ \E k \in StopIds : stop_afterRace(k) /\ AppOnly

Spec == Init /\ [][Next]_vars

\* the guards that keep a run within ObservedCycles start/stop cycles
MayStart == AlreadyStarted \/ Cardinality(Started) < ObservedCycles
MayStop == state \in {STOPPED, STOPPING} \/ Cardinality(Stopped) < ObservedCycles

\* the same for callers that stop the Application only once it is RUNNING
MayStopRunning ==
  \/ state \in {STOPPED, STOPPING}
  \/ state = RUNNING /\ Cardinality(Stopped) < ObservedCycles

\* the Application with the callers of stop() and waitForShutdown() observed, over
\* ObservedCycles cycles in which stop() and the host stop signal come in RUNNING
CallerNext ==
  \/ \E o \in Outcomes : addModule(o) /\ AppOnly
  \/ MayStart /\ start /\ AppOnly
  \/ \E i \in StartIds, o \in Outcomes : loadModules_resume(i, o) /\ AppOnly
  \/ \E i \in StartIds : start_afterLoadModules(i) /\ AppOnly
  \/ \E i \in StartIds, o \in Outcomes : start_afterTrigger(i, o) /\ AppOnly
  \/ MayStopRunning /\ stop_observed /\ AppOnly
  \/ MayStopRunning /\ onResourceStop /\ AppOnly
  \/ MayStopRunning /\ stopApplicationEvent /\ AppOnly
  \/ \E k \in StopIds, o \in Outcomes : performShutdown_afterTrigger(k, o) /\ AppOnly
  \/ \E k \in StopIds, o \in Outcomes : cleanupModules_resume(k, o) /\ AppOnly
  \/ \E k \in StopIds : performShutdown_afterCleanup(k) /\ AppOnly
  \/ \E k \in StopIds, o \in Outcomes : performShutdown_afterUnload(k, o) /\ AppOnly
  \/ \E k \in StopIds : createShutdownTimeout_fires(k) /\ AppOnly
  \/ \E k \in StopIds : stop_afterRace(k) /\ AppOnly
  \/ waitForShutdown /\ AppOnly
  \/ \E c \in calls : awaitResolved(c) /\ AppOnly

CallerSpec == Init /\ [][CallerNext]_vars

\* the Application over ObservedCycles start/stop cycles
OneCycleNext ==
  \/ \E o \in Outcomes : addModule(o) /\ AppOnly
  \/ MayStart /\ start /\ AppOnly
  \/ \E i \in StartIds, o \in Outcomes : loadModules_resume(i, o) /\ AppOnly
  \/ \E i \in StartIds : start_afterLoadModules(i) /\ AppOnly
  \/ \E i \in StartIds, o \in Outcomes : start_afterTrigger(i, o) /\ AppOnly
  \/ MayStop /\ stop /\ AppOnly
  \/ MayStop /\ onResourceStop /\ AppOnly
  \/ MayStop /\ stopApplicationEvent /\ AppOnly
  \/ \E k \in StopIds, o \in Outcomes : performShutdown_afterTrigger(k, o) /\ AppOnly
  \/ \E k \in StopIds, o \in Outcomes : cleanupModules_resume(k, o) /\ AppOnly
  \/ \E k \in StopIds : performShutdown_afterCleanup(k) /\ AppOnly
  \/ \E k \in StopIds, o \in Outcomes : performShutdown_afterUnload(k, o) /\ AppOnly
  \/ \E k \in StopIds : createShutdownTimeout_fires(k) /\ AppOnly
  \/ \E k \in StopIds : stop_afterRace(k) /\ AppOnly

\* the scheduling the event loop guarantees to stop(): a timer that was set
\* fires, and the continuation of a settled Promise.race runs.  Nothing is assumed
\* of performShutdown: an awaited cleanup() may never settle.
FairSpec ==
  /\ Init /\ [][OneCycleNext]_vars
  /\ \A k \in StopIds : WF_vars(createShutdownTimeout_fires(k) /\ AppOnly)
  /\ \A k \in StopIds : WF_vars(stop_afterRace(k) /\ AppOnly)

\* the TickLoader with either factory bound to "MiddlewareTickFactory"
LoaderInit ==
  /\ InitApplication
  /\ InitLoader
  /\ InitBootstrap
  /\ tickFactory \in {"chain", "context"}
  /\ providerLoader = ProviderLoaderOf("plain", TRUE, TRUE)

\* the TickLoader, the host's scheduler and event bus, and the wrapped handlers
LoaderNext ==
  \/ \E metas \in MetadataTables : TickLoader_load(metas)
  \/ TickLoader_unload
  \/ \E h \in Handles : setTick_runs(h)
  \/ \E h \in Handles, o \in HandlerResults : tick_afterInvoke(h, o)
  \/ \E h \in Handles : tick_afterSleep(h)

LoaderSpec == LoaderInit /\ [][LoaderNext]_vars

\* a provider with one tick method is loaded once
OneTick(metas) == Issued = {} /\ Len(metas) = 1

\* the handlers behind the middleware chains: the event handler the host
\* delivers to, and the tick handler of a provider with one tick method
MiddlewareNext ==
  \/ \E metas \in MetadataTables : OneTick(metas) /\ TickLoader_load(metas)
  \/ TickLoader_unload
  \/ \E h \in Handles : setTick_runs(h)
  \/ \E h \in Handles, o \in HandlerResults : tick_afterInvoke(h, o)
  \/ \E h \in Handles : tick_afterSleep(h)
  \/ \E c \in BOOLEAN, a \in EventArgs :
       eventDelivered([context |-> c, interval |-> 0], a)
  \/ \E o \in HandlerResults : eventHandled(o)

MiddlewareSpec == LoaderInit /\ [][MiddlewareNext]_vars


\* the server Bootstrap() and the Application it creates, with the host's stop
\* signals
BootstrapNext ==
  \/ Bootstrap_create
  \/ \E i \in StartIds : start_afterLoadModules(i) /\ AppOnly
  \/ \E i \in StartIds, o \in Outcomes : start_afterTrigger(i, o) /\ AppOnly
  \/ Bootstrap_afterCreate
  \/ HostTurn /\ onResourceStop /\ AppOnly
  \/ HostTurn /\ stopApplicationEvent /\ AppOnly
  \/ \E k \in StopIds, o \in Outcomes : performShutdown_afterTrigger(k, o) /\ AppOnly
  \/ \E k \in StopIds : performShutdown_afterCleanup(k) /\ AppOnly
  \/ \E k \in StopIds, o \in Outcomes : performShutdown_afterUnload(k, o) /\ AppOnly
  \/ \E k \in StopIds : HostTurn /\ createShutdownTimeout_fires(k) /\ AppOnly
  \/ \E k \in StopIds : stop_afterRace(k) /\ AppOnly
  \/ Bootstrap_afterStop

BootstrapSpec == Init /\ [][BootstrapNext]_vars

\* a ProviderLoader of either version, with each member set or not
ProviderInit ==
  /\ InitApplication
  /\ InitLoader
  /\ InitBootstrap
  /\ tickFactory = "chain"
  /\ \E v \in ProviderLoaderVersions, e \in BOOLEAN, t \in BOOLEAN :
       providerLoader = ProviderLoaderOf(v, e, t)

\* the ProviderLoader with its sub-loaders and the host's tick scheduler
ProviderNext ==
  \/ \E metas \in MetadataTables : ProviderLoader_load(metas)
  \/ ProviderLoader_unload
  \/ \E h \in Handles : setTick_runs(h)
  \/ \E h \in Handles, o \in HandlerResults : tick_afterInvoke(h, o)
  \/ \E h \in Handles : tick_afterSleep(h)

ProviderSpec == ProviderInit /\ [][ProviderNext]_vars

\* no start() is in progress
NotStarting == state # STARTING

\* the Application over repeated start/stop cycles whose callers and host call
\* stop() only when no start() is in progress
SequentialNext ==
  \/ \E o \in Outcomes : addModule(o) /\ AppOnly
  \/ start /\ AppOnly
  \/ \E i \in StartIds, o \in Outcomes : loadModules_resume(i, o) /\ AppOnly
  \/ \E i \in StartIds : start_afterLoadModules(i) /\ AppOnly
  \/ \E i \in StartIds, o \in Outcomes : start_afterTrigger(i, o) /\ AppOnly
  \/ NotStarting /\ stop /\ AppOnly
  \/ NotStarting /\ onResourceStop /\ AppOnly
  \/ NotStarting /\ stopApplicationEvent /\ AppOnly
  \/ \E k \in StopIds, o \in Outcomes : performShutdown_afterTrigger(k, o) /\ AppOnly
  \/ \E k \in StopIds, o \in Outcomes : cleanupModules_resume(k, o) /\ AppOnly
  \/ \E k \in StopIds : performShutdown_afterCleanup(k) /\ AppOnly
  \/ \E k \in StopIds, o \in Outcomes : performShutdown_afterUnload(k, o) /\ AppOnly
  \/ \E k \in StopIds : createShutdownTimeout_fires(k) /\ AppOnly
  \/ \E k \in StopIds : stop_afterRace(k) /\ AppOnly

SequentialSpec == Init /\ [][SequentialNext]_vars

\* ================================================================ claims

\* C1: a call of start() made while the state is STARTING or RUNNING is a no-op:
\* the state is unchanged, no module is passed to the Module Loader, no shutdown
\* promise is created and no listener is registered.
C1_StartWhileStartedIsNoOp ==
  [][(lastOp' = "start" /\ state \in {STARTING, RUNNING})
       => UNCHANGED <<state, shutdownPromise, shutdownResolver, onStopCallback,
                      modules, promiseVal, listeners, resourceListeners,
                      loaded, starts, stops>>]_vars

\* start() has been called while the Application was RUNNING (a start() that runs
\* leaves STARTING behind, so this one returned at its guard)
C1_Witness == lastOp = "start" /\ state = RUNNING

\* the state changes of the state machine of spec section 4.2
AllowedTransitions ==
  {<<STOPPED, STARTING>>, <<STARTING, RUNNING>>, <<STARTING, STOPPED>>,
   <<RUNNING, STOPPING>>, <<STOPPING, STOPPED>>}

\* C4: the state changes only along STOPPED->STARTING, STARTING->RUNNING,
\* STARTING->STOPPED, RUNNING->STOPPING and STOPPING->STOPPED.
C4_OnlyAllowedTransitions ==
  [][state' # state => <<state, state'>> \in AllowedTransitions]_vars

\* the ids of modules[1..n], in insertion order
FirstModules(n) == [j \in 1..n |-> modules[j].id]

\* C5: when loading a module fails during start(), the modules up to it were
\* passed to the Module Loader in insertion order and none after it, start()
\* rejects and goes no further, and the state is STOPPED.
C5_LoadFailureAbortsStart ==
  [][\A i \in StartIds :
       /\ (starts[i].pc = "load" /\ starts'[i].pc = "rejected")
            => /\ state' = STOPPED
               /\ starts[i].loads = FirstModules(starts[i].idx)
               /\ loaded' = loaded
       /\ starts[i].pc = "rejected" => starts'[i] = starts[i]]_vars

\* start() was rejected by the load of the second module: both modules were
\* passed to the Module Loader, no listener was registered, the state is STOPPED
C5_Witness ==
  /\ starts[1].pc = "rejected"
  /\ starts[2].pc = "idle"
  /\ Stopped = {}
  /\ Len(modules) = 2
  /\ loaded[1] = 1
  /\ loaded[2] = 1
  /\ listeners = {}
  /\ state = STOPPED

\* the ids of the modules that define cleanup(), in insertion order
CleanableIds ==
  LET q == SelectSeq(modules, LAMBDA m : m.cleanup)
  IN [j \in 1..Len(q) |-> q[j].id]

\* no element occurs twice in sequence q
NoRepeat(q) == \A a, b \in 1..Len(q) : q[a] = q[b] => a = b

\* C3 as claimed: the shutdown side effects happen exactly once: when the
\* performShutdown of a stop() called in RUNNING ends, it has fired the Stop
\* once-event once, invoked each module's cleanup() once and unloaded the Module
\* Loader once.
C3_EffectsExactlyOnce ==
  [][\A k \in StopIds :
       (stops[k].from = RUNNING /\ stops'[k].perf = "done")
         => /\ stops[k].stopEvents = 1
            /\ stops[k].cleans = CleanableIds
            /\ stops[k].unloads = 1]_vars

\* C3 as amended: no stop() call or host stop signal that arrives while the state
\* is STOPPING starts another performShutdown; a performShutdown fires the Stop
\* once-event once and invokes each module's cleanup() and the Module Loader
\* unload at most once; when it returns true, every cleanup() and the unload have
\* happened exactly once and the stored callback is no longer subscribed.
C3_EffectsAtMostOnce ==
  /\ [](\A k \in StopIds :
          /\ stops[k].stopEvents <= 1
          /\ stops[k].unloads <= 1
          /\ NoRepeat(stops[k].cleans)
          /\ stops[k].perf \notin {"idle", "done"} => stops[k].stopEvents = 1)
  /\ [][/\ state = STOPPING => Stopped' = Stopped
        /\ \A k \in StopIds :
             (stops[k].perfResult = "none" /\ stops'[k].perfResult = "T")
               => /\ stops[k].cleans = CleanableIds
                  /\ stops[k].unloads = 1
                  /\ onStopCallback # Null => onStopCallback \notin listeners']_vars

\* a stop() call arrived in STOPPING while the one performShutdown had cleaned
\* both modules and was unloading the Module Loader
C3_Witness ==
  /\ lastOp = "stop"
  /\ state = STOPPING
  /\ Stopped = {1}
  /\ stops[1].perf = "unload"
  /\ stops[1].cleans = <<1, 2>>

\* C9: when the Stop once-event or the Module Loader unload throws, stop() returns
\* false, the shared shutdown future is resolved with false, shutdownPromise,
\* shutdownResolver and onStopCallback are null and the state ends as STOPPED.
C9_FailedShutdown ==
  [][\A k \in StopIds :
       /\ (stops[k].perfResult = "none" /\ stops'[k].perfResult = "F")
            => /\ stops[k].prom # Null
               /\ promiseVal'[stops[k].prom] = "F"
               /\ shutdownPromise' = Null
               /\ shutdownResolver' = Null
               /\ onStopCallback' = Null
       /\ (stops[k].pc = "racing" /\ stops'[k].pc = "returned"
             /\ stops[k].perfResult = "F")
            => /\ state' = STOPPED
               /\ stopResult(k)' = "F"
               /\ shutdownPromise' = Null
               /\ shutdownResolver' = Null
               /\ onStopCallback' = Null]_vars

\* C10: cleanup() is attempted on every module that defines it, in insertion
\* order, whichever earlier cleanup() threw; a throwing cleanup() does not end
\* performShutdown, the Module Loader unload follows, and only the Stop once-event
\* or the unload turns the result into false.
C10_CleanupFailuresContained ==
  /\ [](\A k \in StopIds :
          /\ stops[k].perf \in {"cleaned", "unload"} => stops[k].cleans = CleanableIds
          /\ stops[k].perf = "unload" => stops[k].unloads = 1)
  /\ [][\A k \in StopIds :
          /\ stops[k].perf = "cleanup"
               => /\ stops'[k].perf \in {"cleanup", "cleaned"}
                  /\ stops'[k].perfResult = "none"
          /\ stops[k].perf = "cleaned" => stops'[k].perf \in {"cleaned", "unload"}
          /\ (stops[k].perfResult = "none" /\ stops'[k].perfResult = "F")
               => stops[k].perf \in {"trigger", "unload"}]_vars

\* the cleanup() of the first module threw, the second module was cleaned all the
\* same and the Module Loader is being unloaded
C10_Witness ==
  \E k \in StopIds :
    /\ stops[k].perf = "unload"
    /\ 1 \in stops[k].cleanFailed
    /\ stops[k].cleans = <<1, 2>>

\* C6: the shutdown timeout is a hard deadline: a timer that fires before
\* performShutdown has returned wins the race; stop() then returns false and sets
\* STOPPED whatever performShutdown is doing; so every stop() that began a
\* shutdown eventually returns.
C6_HardDeadline ==
  /\ [](\A k \in StopIds :
          (stops[k].timer = "fired" /\ stops[k].perfResult = "none")
            => stops[k].won = "timer")
  /\ [][\A k \in StopIds :
          (stops[k].pc = "racing" /\ stops'[k].pc = "returned"
             /\ stops[k].won = "timer")
            => /\ state' = STOPPED
               /\ stopResult(k)' = "F"]_vars
  /\ \A k \in StopIds : (stops[k].pc = "racing") ~> (stops[k].pc = "returned")

\* stop() has returned by the deadline while performShutdown still waits for the
\* cleanup() of the first module
C6_Witness ==
  /\ stops[1].pc = "returned"
  /\ stopResult(1) = "F"
  /\ stops[1].perf = "cleanup"
  /\ stops[1].cleans = <<1>>
  /\ state = STOPPED

\* the stop() executions that end the cycle call c was made in
CycleOf(c) ==
  IF c.peer # 0
    THEN {c.peer}
    ELSE {k \in Stopped : c.prom # Null /\ stops[k].prom = c.prom}

\* C2: a stop() called while a first stop() is in flight (state STOPPING) returns
\* the same boolean as that first stop().
C2_SecondStopSameResult ==
  \A c \in calls :
    (c.kind = "stop" /\ c.st = STOPPING /\ c.result # "none"
       /\ stopResult(c.peer) # "none")
      => c.result = stopResult(c.peer)

\* C7: the callers of waitForShutdown() of one start/stop cycle (called in
\* STARTING, RUNNING or STOPPING) all receive the same value, and that value is
\* what the performShutdown of the cycle returned.
C7_WaitersAgree ==
  \A c \in calls :
    (c.kind = "wait" /\ c.st # STOPPED /\ c.result # "none")
      => /\ \A d \in calls :
              (d.kind = "wait" /\ d.st # STOPPED /\ d.result # "none"
                 /\ CycleOf(c) \cap CycleOf(d) # {})
                => c.result = d.result
         /\ \A k \in CycleOf(c) :
              stops[k].perfResult # "none" => c.result = stops[k].perfResult

\* C8: when the timeout wins the race of a stop(), every waitForShutdown() of that
\* cycle receives false.
C8_TimeoutSurfacesToWaiters ==
  \A c \in calls :
    (c.kind = "wait" /\ c.st # STOPPED /\ c.result # "none")
      => \A k \in CycleOf(c) : stops[k].won = "timer" => c.result = "F"

TypeOK ==
  /\ state \in ApplicationState
  /\ shutdownPromise \in {Null} \cup StartIds
  /\ shutdownResolver \in {Null} \cup StartIds
  /\ onStopCallback \in {Null} \cup StartIds
  /\ Len(modules) <= MaxModules
  /\ created \in {"adding", "ready", "failed"}
  /\ \A p \in StartIds : promiseVal[p] \in {"none", "pending", "T", "F"}
  /\ listeners \subseteq StartIds
  /\ resourceListeners \in 0..MaxStarts

\* C11: the Application is subscribed to each host stop signal at most once, and
\* once a stop() has returned or a start() has failed none of its listeners is
\* subscribed any more.
C11_ListenersUnsubscribed ==
  /\ [](Cardinality(listeners) <= 1 /\ resourceListeners <= 1)
  /\ [][(\/ \E k \in StopIds : stops[k].pc = "racing" /\ stops'[k].pc = "returned"
         \/ \E i \in StartIds : starts[i].pc # "rejected" /\ starts'[i].pc = "rejected")
          => (listeners' = {} /\ resourceListeners' = 0)]_vars

\* the invocations of the handler of h that have settled
Settled(h) == task[h].attempts - (IF task[h].pc = "invoking" THEN 1 ELSE 0)

\* what the latest wrapped invocation of the handler of h settled with
LastResult(h) == wrappedResult(task[h].mw.ret)

\* C12: when the wrapped invocation of a tick handler returns false the task
\* clears its own registration, and the handler is not invoked again; any other
\* result leaves the registration as it was.
C12_SentinelCancels ==
  [][\A h \in Handles :
       /\ (task[h].pc = "invoking" /\ task'[h].pc # "invoking")
            => /\ wrappedResult(task'[h].mw.ret) = "false" => h \notin hostTicks'
               /\ wrappedResult(task'[h].mw.ret) # "false"
                    => (h \in hostTicks' <=> h \in hostTicks)
       /\ task'[h].attempts > task[h].attempts
            => (task[h].attempts = 0 \/ LastResult(h) # "false")]_vars

\* a handler was invoked, returned false while its handle was held by the loader,
\* and its registration is gone
C12_Witness ==
  \E h \in Handles :
    /\ task[h].pc = "idle"
    /\ task[h].attempts = 1
    /\ LastResult(h) = "false"
    /\ h \in Stored
    /\ h \notin hostTicks

\* C13: every active registration made by the loader is held in its list; after
\* unload() the list is empty and none of the loader's registrations is active, so
\* no invocation starts for a handle the loader has unloaded; unload() on an empty
\* list changes nothing.
C13_UnloadLeavesNothing ==
  /\ [](hostTicks \subseteq Stored)
  /\ [][/\ lastOp' = "unload"
             => /\ ticks' = <<>>
                /\ hostTicks' = {}
                /\ ticks = <<>> => UNCHANGED <<hostTicks, task>>
        /\ \A h \in Handles :
             task'[h].attempts > task[h].attempts => h \in Stored]_vars

\* unload() has returned while an invocation was in flight and another handle
\* had been loaded: nothing is registered
C13_Witness ==
  /\ lastOp = "unload"
  /\ Cardinality(Issued) = 2
  /\ \E h \in Handles : task[h].pc = "invoking"
  /\ hostTicks = {}
  /\ ticks = <<>>

Passes ==
  {[mw |-> event.mw, meta |-> event.meta, args |-> event.args,
    handler |-> event.handler]}
    \cup {[mw |-> task[h].mw, meta |-> task[h].meta, args |-> <<>>,
           handler |-> task[h].handler] : h \in Issued}

\* C15: in every invocation through a context middleware one Context is created;
\* while the call is forwarded it has been started once and not stopped; when the
\* invocation is over it has been started once and stopped once, whether the
\* handler returned or threw, and the middleware passed on what the handler
\* settled with.
C15_ContextBracketsInvocation ==
  \A p \in Passes :
    /\ p.mw.pc = "forwarded"
         => p.mw.contexts = 1 /\ p.mw.started = 1 /\ p.mw.stopped = 0
    /\ p.mw.pc = "done"
         => /\ p.mw.contexts = 1 /\ p.mw.started = 1 /\ p.mw.stopped = 1
            /\ p.mw.ret = p.handler

\* an event handler and a tick handler have both thrown, and both invocations
\* are over
C15_Witness ==
  /\ event.mw.pc = "done"
  /\ event.handler = "throw"
  /\ \E h \in Handles : /\ task[h].mw.pc = "done"
                        /\ task[h].handler = "throw"
                        /\ task[h].mw.stopped = 1

\* C16: the handler is called with the original arguments, led by the Context
\* exactly when the metadata declares context: true; the Context is started and
\* stopped either way.
C16_ContextArgument ==
  \A p \in Passes :
    p.mw.pc \in {"forwarded", "done"}
      => /\ p.meta.context => p.mw.fwd = <<"Context">> \o p.args
         /\ ~p.meta.context => p.mw.fwd = p.args
         /\ p.mw.started = 1
         /\ p.mw.pc = "done" => p.mw.stopped = 1

\* an event handler declared with context: false was delivered one argument and
\* received just that; a tick handler declared with context: true received the
\* Context
C16_Witness ==
  /\ event.mw.pc = "done"
  /\ ~event.meta.context
  /\ event.args = <<"a">>
  /\ event.mw.fwd = <<"a">>
  /\ \E h \in Handles : /\ task[h].mw.pc = "done"
                        /\ task[h].meta.context
                        /\ task[h].mw.fwd = <<"Context">>

\* C17: a stop() called in STOPPED returns true at once and changes nothing: the
\* state stays STOPPED, and no performShutdown and no timer is started.
C17_StopWhileStoppedIsNoOp ==
  [][(lastOp' = "stop" /\ state = STOPPED)
       => /\ UNCHANGED <<state, shutdownPromise, shutdownResolver, onStopCallback,
                         modules, created, promiseVal, listeners,
                         resourceListeners, loaded, starts, stops>>
          /\ \E c \in calls' : c.kind = "stop" /\ c.st = STOPPED /\ c.result = "T"
          /\ \A c \in calls' \ calls : c.kind = "stop" /\ c.result = "T"]_vars

\* stop() was called in STOPPED after a shutdown whose timeout had won, and was
\* answered true
C17_Witness ==
  /\ lastOp = "stop"
  /\ state = STOPPED
  /\ \E k \in StopIds : stops[k].pc = "returned" /\ stops[k].won = "timer"
  /\ \E c \in calls : c.kind = "stop" /\ c.st = STOPPED /\ c.result = "T"

\* C18: when the global container is unloaded, no performShutdown of the
\* Application is still pending or running.
C18_ContainerOutlivesShutdown ==
  containerUnloaded => \A k \in StopIds : stops[k].perf \in {"idle", "done"}

\* C19: a performShutdown invokes a cleanup() only after its Stop once-event and
\* before its unload, unloads the Module Loader only after every cleanup(), and
\* returns true only after the unload, in the step that removes the stored
\* listener, resolves the shutdown promise with true and then resets the
\* bookkeeping; a shutdown promise is resolved with true in no other step.
C19_ShutdownOrder ==
  [][/\ \A k \in StopIds :
          /\ Len(stops'[k].cleans) > Len(stops[k].cleans)
               => /\ stops[k].stopEvents = 1
                  /\ stops[k].perf \in {"trigger", "cleanup"}
                  /\ stops[k].unloads = 0
          /\ stops'[k].unloads > stops[k].unloads
               => /\ stops[k].perf = "cleaned"
                  /\ stops[k].stopEvents = 1
                  /\ stops[k].cleans = CleanableIds
          /\ (stops[k].perfResult = "none" /\ stops'[k].perfResult = "T")
               => /\ stops[k].perf = "unload"
                  /\ stops[k].unloads = 1
                  /\ stops[k].cleans = CleanableIds
                  /\ listeners' = listeners \ {onStopCallback}
                  /\ (shutdownResolver # Null /\ promiseVal[shutdownResolver] = "pending")
                       => promiseVal'[shutdownResolver] = "T"
                  /\ shutdownPromise' = Null
                  /\ shutdownResolver' = Null
                  /\ onStopCallback' = Null
     /\ \A p \in StartIds :
          (promiseVal[p] # "T" /\ promiseVal'[p] = "T")
            => /\ p = shutdownResolver
               /\ \E k \in StopIds : /\ stops[k].perfResult = "none"
                                     /\ stops'[k].perfResult = "T"]_vars

\* a performShutdown over two modules that define cleanup() has returned true and
\* resolved the shutdown promise
C19_Witness ==
  /\ Len(CleanableIds) = 2
  /\ stops[1].perf = "done"
  /\ stops[1].perfResult = "T"
  /\ promiseVal[1] = "T"
  /\ listeners = {}
  /\ shutdownPromise = Null

\* C20: a start() fires the Start once-event once, when every module has been
\* loaded in insertion order, with its listener registered, and sets RUNNING only
\* after that; a shutdown fires the Stop once-event once, when it begins and
\* before any cleanup().
C20_OnceEvents ==
  [][/\ \A i \in StartIds :
          /\ starts'[i].startEvents > starts[i].startEvents
               => /\ starts[i].startEvents = 0
                  /\ starts[i].pc = "loaded"
                  /\ starts[i].loads = FirstModules(Len(modules))
                  /\ i \in listeners'
                  /\ onStopCallback' = i
          /\ (starts[i].pc # "resolved" /\ starts'[i].pc = "resolved")
               => /\ starts[i].pc = "trigger"
                  /\ starts[i].startEvents = 1
                  /\ state' = RUNNING
     /\ (state # RUNNING /\ state' = RUNNING)
          => \E i \in StartIds : starts[i].pc = "trigger" /\ starts'[i].pc = "resolved"
     /\ \A k \in StopIds :
          /\ (stops[k].perf = "idle" /\ stops'[k].perf # "idle")
               => stops'[k].stopEvents = 1 /\ stops'[k].cleans = <<>>
          /\ stops'[k].perf \notin {"idle", "done"} => stops'[k].stopEvents = 1
          /\ Len(stops'[k].cleans) > Len(stops[k].cleans) => stops[k].stopEvents = 1]_vars

\* a start() over two modules has reached RUNNING
C20_Witness ==
  /\ state = RUNNING
  /\ Len(modules) = 2
  /\ starts[1].pc = "resolved"
  /\ 1 \in listeners
  /\ stops[1].pc = "idle"

\* C21: a load() of the ProviderLoader that succeeds has called the Event Loader
\* and then the Tick Loader; one that throws has called neither, and has left the
\* Event Loader's subscriptions and the Tick Loader's registrations as they were.
C21_LoadOrderAndNoPartialLoad ==
  [][lastOp' = "providerLoad"
       => /\ providerLoader'.result = "ok"
               => providerLoader'.made = <<"event", "tick">>
          /\ (~providerLoader.eventLoader \/ ~providerLoader.tickLoader)
               => /\ providerLoader'.result = "throw"
                  /\ providerLoader'.made = <<>>
                  /\ UNCHANGED <<eventLoader, ticks, hostTicks, task>>]_vars

\* C22: the handle list of the Tick Loader holds only handles of registrations
\* that are still active, so unload() clears no handle that has been cleared
\* before.
C22_HandlesClearedOnce ==
  /\ [](Stored \subseteq hostTicks)
  /\ [][lastOp' = "unload" => Stored \subseteq hostTicks]_vars

\* C23: while the state is RUNNING the shared shutdown promise exists and is
\* pending.
C23_RunningHasPendingPromise ==
  state = RUNNING
    => /\ shutdownPromise # Null
       /\ promiseVal[shutdownPromise] = "pending"

\* C24: no module is passed to the Module Loader's load again without an unload
\* of the Module Loader in between; when a start() fails, the modules it had
\* loaded before the failing one are no longer loaded, and when a stop() returns
\* no module is loaded.
C24_NoDoubleLoad ==
  [][/\ \A m \in ModuleIds : loaded'[m] > loaded[m] => loaded[m] = 0
     /\ \A i \in StartIds :
          (starts[i].pc = "load" /\ starts'[i].pc = "rejected")
            => \A j \in 1..(starts[i].idx - 1) : loaded'[modules[j].id] = 0
     /\ \A k \in StopIds :
          (stops[k].pc = "racing" /\ stops'[k].pc = "returned")
            => \A m \in ModuleIds : loaded'[m] = 0]_vars

\* C25: the timer of a stop() fires, and logs its warning, only while that stop()
\* is still waiting for its race: never after its performShutdown has won.
C25_WarningOnlyOnTimeout ==
  \A k \in StopIds : stops[k].timer = "fired" => stops[k].won = "timer"

====
